---------------------------- MODULE Spec2Model ----------------------------
(***************************************************************************)
(* Hebrew / Gregorian date conversion of hebcal-rs.                        *)
(*                                                                         *)
(* The repository carries the Hebrew calendar arithmetic twice:            *)
(*   hdate_core/src/hebrew.rs      (u32 arithmetic, panics on bad input)   *)
(*   dates_core/src/hebrew_date.rs (f32 arithmetic, Result on bad input)   *)
(* The variable `crate` says which of the two is linked; the operators     *)
(* below follow the linked one wherever the two sources differ.            *)
(*                                                                         *)
(* Rust integer overflow depends on the build profile: with overflow       *)
(* checks (debug) it panics, without (release) it wraps modulo 2^32.       *)
(* The variable `overflow_checks` is the profile.                          *)
(*                                                                         *)
(* Numbers.  Months are their enum discriminants 1..13 (Nisan = 1,         *)
(* Tishrei = 7, AdarII = 13).  The f32 values of dates_core are integers   *)
(* of magnitude below 2^24 for every year below 45934, so every f32        *)
(* operation on them is exact and is modelled on integers:  floor() of a   *)
(* quotient is \div, the float remainder keeps the sign of the dividend    *)
(* (f32_rem), and `as u32` saturates (as_u32).                             *)
(***************************************************************************)
EXTENDS Integers, Sequences, FiniteSets, TLC

VARIABLES
    crate,               \* "hdate_core" or "dates_core": the linked variant
    overflow_checks,     \* TRUE: debug profile (overflow panics)
    ELAPSED_DAYS_CACHE,  \* the process-wide map year -> elapsed days
    op,                  \* the operation of the sequential caller
    arg,                 \* its argument record
    ret,                 \* its result record (tag "None" before the call)
    pc,                  \* "call" before the operation ran, "done" after
    tpc,                 \* per thread: position inside elapsed_days
    tyear,               \* per thread: the `year` argument
    tval,                \* per thread: the value read or computed
    readers,             \* threads holding the RwLock read guard
    writer,              \* threads holding the RwLock write guard
    hdate,               \* the Hdate value at hand (tag "None" before from_ymd)
    origin,              \* the Hdate that from_ymd built
    net,                 \* days added to `origin` since, subtractions negative
    calls                \* per thread: the elapsed_days calls it has started

vars == <<crate, overflow_checks, ELAPSED_DAYS_CACHE, op, arg, ret, pc,
          tpc, tyear, tval, readers, writer, hdate, origin, net, calls>>

-----------------------------------------------------------------------------
(* Bounds of the model                                                     *)

\* number of consecutive Hebrew years taken at each anchor year
YearSpan == 2
\* days before the epoch that are offered to try_from_absolute
BelowEpoch == 3
\* number of threads calling elapsed_days concurrently
NumThreads == 2
\* largest year the threads ask for
MaxCacheYear == 2
\* first years of the 19-year windows checked for leap-year density
MaxWindowStart == 40
\* Gregorian years taken on each side of an anchor year
GregSpan == 1
\* largest month number offered to try_from_ym
MaxMonthArg == 16
\* largest month and day numbers offered to the Gregorian functions
MaxGregorianMonthArg == 13
MaxGregorianDayArg == 32
\* largest net number of days an Hdate is moved from where it was built
MaxNet == 41
\* calls of elapsed_days one thread makes when the calls are counted
\* (days_in_year makes two in a row)
MaxCalls == 2

-----------------------------------------------------------------------------
(* Program constants                                                       *)

EPOCH == -1373428

Nisan == 1
Iyyar == 2
Sivan == 3
Tamuz == 4
Av == 5
Elul == 6
Tishrei == 7
Cheshvan == 8
Kislev == 9
Tevet == 10
Shvat == 11
AdarI == 12
AdarII == 13

Crates == {"hdate_core", "dates_core"}

\* the bit pattern 0xFFFFFFFF of a wrapped u32, read as two's complement
U32_MAX == -1

-----------------------------------------------------------------------------
(* Results                                                                 *)

Result(t, y, m, d) == [tag |-> t, year |-> y, month |-> m, day |-> d]
Ok(y, m, d) == Result("Ok", y, m, d)
Panic == Result("Panic", 0, 0, 0)
BeforeEpochError == Result("BeforeEpochError", 0, 0, 0)
BadMonthArgument == Result("BadMonthArgument", 0, 0, 0)
NoResult == Result("None", 0, 0, 0)
Value(v) == Result("Value", v, 0, 0)

-----------------------------------------------------------------------------
(* Hebrew calendar arithmetic                                              *)

\* f32 `%`: the remainder has the sign of the dividend
f32_rem(x, y) == IF x >= 0 THEN x % y ELSE 0 - ((0 - x) % y)

\* `as u32` of a float saturates at 0
as_u32(x) == IF x < 0 THEN 0 ELSE x

\* is_leap_year with six leap years in a cycle
is_leap_year_six(year) == (1 + year * 7) % 19 < 6

is_leap_year(year) == (1 + year * 7) % 19 < 7

\* months_in_year without the second Adar of leap years
months_in_year_always_twelve(year) == 12

months_in_year(year) == IF is_leap_year(year) THEN 13 ELSE 12

\* hdate_core, year = 0 without overflow checks: previous_year wraps to
\* 4294967295 and, modulo 2^32, overall_months = 1582356298,
\* regular_months = 60, leap_months = 1, elapsed_months = 1582356359,
\* elapsed_parts = 665531, elapsed_hours = 2970266937, parts = 9971,
\* day = 3062422574 with day % 7 = 1, no postponement.  `as i32` of the
\* result (new_year) is the two's complement reading, kept here.
elapsed_days_u32_wrapped == -1232544722

\* `%` as the linked crate has it: on u32 in hdate_core, on f32 in dates_core
rem(x, y) == IF crate = "hdate_core" THEN x % y ELSE f32_rem(x, y)

\* dates_core converts `day as u32`; hdate_core computes in u32 throughout
day_as_u32(x) == IF crate = "hdate_core" THEN x ELSE as_u32(x)

\* overall_months + regular_months + leap_months ((x / 19.0).floor() and the
\* u32 quotient are both \div)
elapsed_months(previous_year) ==
    235 * (previous_year \div 19)
      + 12 * rem(previous_year, 19)
      + (rem(previous_year, 19) * 7 + 1) \div 19

elapsed_parts(months) == 204 + 793 * rem(months, 1080)

\* elapsed_hours without the 5 hours of the first molad
elapsed_hours_without_first_molad(months, eparts) ==
    12 * months + 793 * (months \div 1080) + (eparts \div 1080)

elapsed_hours(months, eparts) ==
    5 + 12 * months + 793 * (months \div 1080) + (eparts \div 1080)

\* let parts = ...
parts_of(eparts, ehours) == rem(eparts, 1080) + 1080 * rem(ehours, 24)

\* let day = ...
day_of(months, ehours) == 1 + 29 * months + (ehours \div 24)

\* alt_day without the first `if`: the molad is never too late in the day
alt_day_of_unadjusted(year, parts, day) == day_as_u32(day)

\* alt_day after the first `if`
alt_day_of(year, parts, day) ==
    IF \/ parts >= 19440
       \/ (2 = rem(day, 7) /\ parts >= 9924 /\ ~is_leap_year(year))
       \/ (1 = rem(day, 7) /\ parts >= 16789
             /\ is_leap_year(day_as_u32(year - 1)))
    THEN day_as_u32(day) + 1 ELSE day_as_u32(day)

\* the last step left out: alt_day is returned as it is
not_postponed(alt_day) == alt_day

\* the last step: a new year on Sunday, Wednesday or Friday moves on a day
postponed(alt_day) ==
    IF alt_day % 7 = 0 \/ alt_day % 7 = 3 \/ alt_day % 7 = 5
    THEN alt_day + 1 ELSE alt_day

elapsed_days_from_hours(year, months, eparts, ehours) ==
    postponed(alt_day_of(year, parts_of(eparts, ehours), day_of(months, ehours)))

elapsed_days_from_parts(year, months, eparts) ==
    elapsed_days_from_hours(year, months, eparts, elapsed_hours(months, eparts))

elapsed_days_from_months(year, months) ==
    elapsed_days_from_parts(year, months, elapsed_parts(months))

\* The value elapsed_days computes and inserts on a miss.  Two years are
\* computed on wrapped values: year 0 in hdate_core (reached only without
\* overflow checks), and the wrapped year 0xFFFFFFFF in dates_core, where
\* `day` is about 29 * 235 / 19 * 2^32, `day as u32` saturates to
\* 0xFFFFFFFF, whose residue mod 7 is 3, and alt_day + 1 wraps to 0.
elapsed_days_compute(year) ==
    IF crate = "hdate_core" /\ year = 0 THEN elapsed_days_u32_wrapped
    ELSE IF crate = "dates_core" /\ year = U32_MAX THEN 0
    ELSE elapsed_days_from_months(year, elapsed_months(year - 1))

\* elapsed_days as one sequential call sees it: the cached value on a hit
elapsed_days(year) ==
    IF year \in DOMAIN ELAPSED_DAYS_CACHE THEN ELAPSED_DAYS_CACHE[year]
    ELSE elapsed_days_compute(year)

new_year(year) == EPOCH + elapsed_days(year)

days_in_year(year) == elapsed_days(year + 1) - elapsed_days(year)

is_long_cheshvan(year) == days_in_year(year) % 10 = 5

\* is_short_kislev testing for the remainder of a long year
is_short_kislev_on_five(year) == days_in_year(year) % 10 = 5

is_short_kislev(year) == days_in_year(year) % 10 = 3

days_in_month(month, year) ==
    CASE month \in {Iyyar, Tamuz, Elul, Tevet, AdarII} -> 29
      [] month = AdarI -> IF is_leap_year(year) THEN 30 ELSE 29
      [] month = Cheshvan -> IF is_long_cheshvan(year) THEN 30 ELSE 29
      [] month = Kislev -> IF is_short_kislev(year) THEN 29 ELSE 30
      [] OTHER -> 30

\* the sum of days_in_month(i, year) for i in from..to (empty if from > to)
RECURSIVE sum_days_in_months(_, _, _)
sum_days_in_months(from, to, year) ==
    IF from > to THEN 0
    ELSE days_in_month(from, year) + sum_days_in_months(from + 1, to, year)

\* hebrew_to_absolute counting the first day of the year as day 0 twice:
\* the final `- 1` is left out
hebrew_to_absolute_plus_one(year, month, day) ==
    LET temp_absolute ==
            IF month < Tishrei
            THEN day + sum_days_in_months(Tishrei, months_in_year(year), year)
                     + sum_days_in_months(Nisan, month - 1, year)
            ELSE day + sum_days_in_months(Tishrei, month - 1, year)
    IN  EPOCH + elapsed_days(year) + temp_absolute

\* hebrew_to_absolute for year >= 1 (year = 0 fails the assertion)
hebrew_to_absolute(year, month, day) ==
    LET temp_absolute ==
            IF month < Tishrei
            THEN day + sum_days_in_months(Tishrei, months_in_year(year), year)
                     + sum_days_in_months(Nisan, month - 1, year)
            ELSE day + sum_days_in_months(Tishrei, month - 1, year)
    IN  EPOCH + elapsed_days(year) + temp_absolute - 1


-----------------------------------------------------------------------------
(* Hebrew converter: absolute day -> Hebrew date                           *)

\* AVG_HEBREW_YEAR_DAYS = 365.24682220597794 is the f64 nearest to
\* 35975351 / 98496 days (235 lunations of 765433 parts in 19 years)
AVG_HEBREW_YEAR_DAYS_NUM == 35975351
AVG_HEBREW_YEAR_DAYS_DEN == 98496

\* ((absolute as f64 - EPOCH as f64).floor() / AVG_HEBREW_YEAR_DAYS) as u32.
\* A negative quotient saturates to 0.  For 0 < n < 2^23 the quotient is at
\* least 1/35975351 away from an integer, far more than the f64 rounding
\* error, so the truncation is the largest y with y * AVG <= n, which is
\*   (NUM - 365 * DEN) * y <= DEN * (n - 365 * y).
year_estimate(absolute) ==
    LET n == absolute - EPOCH
        fits(y) == (AVG_HEBREW_YEAR_DAYS_NUM - 365 * AVG_HEBREW_YEAR_DAYS_DEN) * y
                     <= AVG_HEBREW_YEAR_DAYS_DEN * (n - 365 * y)
    IN  IF n <= 0 THEN 0
        ELSE CHOOSE y \in (n \div 366)..(n \div 365) : fits(y) /\ ~fits(y + 1)

\* while new_year(year) <= absolute { year += 1 }
RECURSIVE scan_year(_, _)
scan_year(year, absolute) ==
    IF new_year(year) <= absolute THEN scan_year(year + 1, absolute) ELSE year

\* while absolute > hebrew_to_absolute(year, month.into(),
\*                      days_in_month(month.into(), year)) { month += 1 }
\* month.into() panics above 13: the scan then yields 14
RECURSIVE scan_month(_, _, _)
scan_month(year, month, absolute) ==
    IF month > AdarII THEN month
    ELSE IF absolute > hebrew_to_absolute(year, month, days_in_month(month, year))
         THEN scan_month(year, month + 1, absolute)
         ELSE month

\* dates_core without overflow checks, absolute = EPOCH: `year -= 1` at
\* year = 0 leaves year = 0xFFFFFFFF.  Then elapsed_days(year) is 0 (see
\* elapsed_days_compute), year + 1 wraps to 0, days_in_year(year) is
\* elapsed_days(0) - 0 = 1, hebrew_to_absolute(year, Nisan, 1) is above
\* EPOCH, the month scan starts and stops at Tishrei, whose first day is
\* EPOCH + 0 + 1 - 1, and day = 1.
wrapped_epoch_date == Ok(U32_MAX, Tishrei, 1)

\* hdate_core without overflow checks leaves the year scan at 0 only for an
\* absolute below new_year(0) = EPOCH + elapsed_days_u32_wrapped; what is
\* computed from the wrapped year after that is not followed: a panic
\* further on, or some date of the wrapped year.
WrappedOutcomes ==
    {Panic} \cup {Ok(U32_MAX, m, d) : m \in Nisan..AdarII, d \in 1..30}

\* `year -= 1` on a u32 that is 0: panic with overflow checks, wrap without
OverflowOutcomes ==
    IF overflow_checks THEN {Panic}
    ELSE IF crate = "dates_core" THEN {wrapped_epoch_date}
    ELSE WrappedOutcomes

\* day = 1 + absolute - hebrew_to_absolute(year, month.into(), 1), then
\* day.try_into().unwrap() to u8
date_of_day(year, month, day) ==
    IF day < 0 \/ day > 255 THEN {Panic} ELSE {Ok(year, month, day)}

\* the day counted from 0: `1 +` is left out
date_of_month_from_zero(year, month, absolute) ==
    IF month > AdarII THEN {Panic}
    ELSE date_of_day(year, month,
                     absolute - hebrew_to_absolute(year, month, 1))

\* month.into() after the month scan
date_of_month(year, month, absolute) ==
    IF month > AdarII THEN {Panic}
    ELSE date_of_day(year, month,
                     1 + absolute - hebrew_to_absolute(year, month, 1))

\* let mut month: u8 = if absolute < hebrew_to_absolute(year, Nisan, 1) ...
first_month(year, absolute) ==
    IF absolute < hebrew_to_absolute(year, Nisan, 1) THEN Tishrei ELSE Nisan

\* the assertion of hebrew_to_absolute, then the month scan
date_of_year(year, absolute) ==
    IF year = 0 THEN {Panic}
    ELSE date_of_month(year,
                       scan_month(year, first_month(year, absolute), absolute),
                       absolute)

\* year -= 1
date_of_scanned(scanned, absolute) ==
    IF scanned = 0 THEN OverflowOutcomes
    ELSE date_of_year(scanned - 1, absolute)

\* the body of try_from_absolute after its guard: the set of results the
\* build can produce (one result unless a wrapped u32 is not followed)
absolute_to_ymd(absolute) ==
    IF crate = "hdate_core" /\ year_estimate(absolute) = 0 /\ overflow_checks
    THEN {Panic}                     \* new_year(0): elapsed_days(0), year - 1
    ELSE date_of_scanned(scan_year(year_estimate(absolute), absolute), absolute)

try_from_absolute(absolute) ==
    IF crate = "hdate_core"
    THEN IF ~(absolute < EPOCH) THEN {Panic}      \* assert!(absolute < EPOCH)
         ELSE absolute_to_ymd(absolute)
    ELSE IF absolute < EPOCH THEN {BeforeEpochError}
         ELSE absolute_to_ymd(absolute)

\* HebrewMonth::from(u8)
HebrewMonth_from(value) ==
    IF value \in Nisan..AdarII THEN Value(value) ELSE Panic

try_from_ym(month, year) ==
    IF crate = "hdate_core"
    THEN IF ~(month \in 1..14) THEN Panic
         ELSE IF month = 14 /\ is_leap_year(year) THEN Value(Nisan)
         ELSE IF month = 14 /\ ~is_leap_year(year) THEN Panic
         ELSE IF month = 13 /\ ~is_leap_year(year) THEN Value(Nisan)
         ELSE HebrewMonth_from(month)
    ELSE IF month < 1 \/ month > 14 THEN BadMonthArgument
         ELSE IF is_leap_year(year)
              THEN IF month = 14 THEN Value(Nisan) ELSE HebrewMonth_from(month)
              ELSE IF month = 14 THEN BadMonthArgument
                   ELSE IF month = 13 THEN Value(Nisan)
                   ELSE HebrewMonth_from(month)

-----------------------------------------------------------------------------
(* The cache as the sequential operations leave it                         *)

\* the map after elapsed_days ran for every year of S (hits change nothing)
cache_insert(S) ==
    [y \in (DOMAIN ELAPSED_DAYS_CACHE) \cup S |-> elapsed_days(y)]

\* years hebrew_to_absolute asks elapsed_days for: year, and year + 1 when a
\* summed month is Cheshvan or Kislev (days_in_year)
years_of_hebrew_to_absolute(year, month) ==
    IF month < Tishrei \/ month > Cheshvan THEN {year, year + 1} ELSE {year}

\* years the scans of try_from_absolute ask elapsed_days for
years_of_scan(estimate, scanned) ==
    IF scanned = 0
    THEN IF overflow_checks THEN {0} ELSE {0, U32_MAX}
    ELSE IF scanned = 1 THEN estimate..scanned
    ELSE (estimate..scanned) \cup {scanned - 1, scanned}

\* years try_from_absolute asks elapsed_days for
years_of_try_from_absolute(absolute) ==
    IF crate = "hdate_core" /\ ~(absolute < EPOCH) THEN {}
    ELSE IF crate = "dates_core" /\ absolute < EPOCH THEN {}
    ELSE IF crate = "hdate_core" /\ year_estimate(absolute) = 0
              /\ overflow_checks THEN {}
    ELSE years_of_scan(year_estimate(absolute),
                       scan_year(year_estimate(absolute), absolute))

-----------------------------------------------------------------------------
(* Gregorian converter (hdate_core/src/gregorian.rs)                       *)

LENGTHS == <<31, 28, 31, 30, 31, 30, 31, 31, 30, 31, 30, 31>>
LEAP_LENGTHS == <<31, 29, 31, 30, 31, 30, 31, 31, 30, 31, 30, 31>>

\* i32 `%`: the remainder has the sign of the dividend
i32_rem(x, y) == IF x >= 0 THEN x % y ELSE 0 - ((0 - x) % y)

\* the i32 operator `/`, which rounds towards zero
quotient_truncating(x, y) == IF x >= 0 THEN x \div y ELSE 0 - ((0 - x) \div y)

\* x.div_euclid(y) for y > 0
quotient(x, y) == x \div y

\* the i32 operator `%` in place of rem_euclid
reminder_truncating(x, y) == i32_rem(x, y)

\* x.rem_euclid(y) for y > 0
reminder(x, y) == x % y

\* the leap rule without its century exceptions
gregorian_is_leap_year_every_fourth(year) == i32_rem(year, 4) = 0

gregorian_is_leap_year(year) ==
    i32_rem(year, 4) = 0 /\ (i32_rem(year, 100) # 0 \/ i32_rem(year, 400) = 0)

\* days_in_month of gregorian.rs; 0 stands for the failed assertion
gregorian_days_in_month(month, year) ==
    IF ~(month \in 1..12) THEN 0
    ELSE IF gregorian_is_leap_year(year) THEN LEAP_LENGTHS[month]
    ELSE LENGTHS[month]

\* to_fixed with its first assertion only
to_fixed_asserts_month_only(year, month, day) == month \in 1..12

\* the two assertions of to_fixed
to_fixed_asserts(year, month, day) ==
    /\ month \in 1..12
    /\ day >= 1 /\ day <= gregorian_days_in_month(month, year)

\* the day number to_fixed returns when its assertions hold
to_fixed_days(year, month, day) ==
    LET previous_year == year - 1
    IN  365 * previous_year + quotient(previous_year, 4)
          - quotient(previous_year, 100)
          + quotient(previous_year, 400)
          + quotient(367 * month - 362, 12)
          + (IF month <= 2 THEN 0
             ELSE IF gregorian_is_leap_year(year) THEN -1 ELSE -2)
          + day

to_fixed(year, month, day) ==
    IF to_fixed_asserts(year, month, day)
    THEN Value(to_fixed_days(year, month, day)) ELSE Panic

\* gregorian_to_absolute takes a NaiveDate, which is always a valid date
gregorian_to_absolute(year, month, day) == to_fixed(year, month, day)

\* year_from_fixed without its test for the last day of a leap cycle
year_from_fixed_unguarded(abs) ==
    LET l0 == abs - 1
        n400 == quotient(l0, 146097)
        d1 == reminder(l0, 146097)
        n100 == quotient(d1, 36524)
        d2 == reminder(d1, 36524)
        n4 == quotient(d2, 1461)
        d3 == reminder(d2, 1461)
        n1 == quotient(d3, 365)
    IN  400 * n400 + 100 * n100 + 4 * n4 + n1 + 1

year_from_fixed(abs) ==
    LET l0 == abs - 1
        n400 == quotient(l0, 146097)
        d1 == reminder(l0, 146097)
        n100 == quotient(d1, 36524)
        d2 == reminder(d1, 36524)
        n4 == quotient(d2, 1461)
        d3 == reminder(d2, 1461)
        n1 == quotient(d3, 365)
        year == 400 * n400 + 100 * n100 + 4 * n4 + n1
    IN  IF n100 # 4 /\ n1 # 4 THEN year + 1 ELSE year

\* NaiveDate::from_ymd_opt: Some for a date of the proleptic Gregorian
\* calendar, None otherwise
NaiveDate_from_ymd_opt(year, month, day) ==
    IF /\ month \in 1..12
       /\ day >= 1
       /\ day <= (IF month = 2 /\ year % 4 = 0
                       /\ (year % 100 # 0 \/ year % 400 = 0)
                  THEN 29 ELSE LENGTHS[month])
    THEN Result("Some", year, month, day)
    ELSE NoResult

absolute_to_gregorian(absolute) ==
    LET year == year_from_fixed(absolute)
        prior_days == absolute - to_fixed_days(year, 1, 1)
        correction == IF absolute < to_fixed_days(year, 3, 1) THEN 0
                      ELSE IF gregorian_is_leap_year(year) THEN 1 ELSE 2
        month == quotient(12 * (prior_days + correction) + 373, 367)
    IN  IF month < 0 \/ ~to_fixed_asserts(year, month, 1) THEN Panic
        ELSE LET day == absolute - to_fixed_days(year, month, 1) + 1
             IN  IF day < 0 THEN Panic
                 ELSE NaiveDate_from_ymd_opt(year, month, day)

-----------------------------------------------------------------------------
(* Inputs                                                                  *)

Arg(y, m, d, a) == [year |-> y, month |-> m, day |-> d, absolute |-> a]

\* years 1 and 2 (the epoch), 3761 and 3762 (absolute day 0), and years of
\* every length: 5765 (383), 5766 (354), 5779 (385), 5781 (353), 5782 (384)
HebrewAnchorYears == {1, 3761, 5765, 5766, 5779, 5781, 5782}

HebrewYears == {a + i : a \in HebrewAnchorYears, i \in 0..(YearSpan - 1)}

SmallYears == 1..MaxWindowStart

EmptyCache == [y \in {} |-> 0]

\* the cache before any call, and as earlier elapsed_days calls for the
\* anchor years have left it
InitialCaches ==
    {EmptyCache, [y \in HebrewAnchorYears |-> elapsed_days_compute(y)]}

HebrewDates ==
    {Arg(y, m, d, 0) : y \in HebrewYears, m \in Nisan..AdarII, d \in 1..30}

\* the month exists in the year and the day in the month
valid_hebrew_date(year, month, day) ==
    /\ year >= 1
    /\ month \in Nisan..months_in_year(year)
    /\ day \in 1..days_in_month(month, year)

AbsoluteDays ==
    ((EPOCH - BelowEpoch)..EPOCH)
      \cup UNION {new_year(y)..(new_year(y + 1) - 1) : y \in HebrewYears}

-----------------------------------------------------------------------------
(* The sequential caller: one operation on one input                       *)

Threads == 1..NumThreads

\* struct Hdate { year, month, day, rd }
Hdate(y, m, d, rd) == [tag |-> "Hdate", year |-> y, month |-> m, day |-> d, rd |-> rd]
NoHdate == [tag |-> "None", year |-> 0, month |-> 0, day |-> 0, rd |-> 0]
HdatePanic == [tag |-> "Panic", year |-> 0, month |-> 0, day |-> 0, rd |-> 0]

\* no Hdate has been built
HdateUnset == hdate = NoHdate /\ origin = NoHdate /\ net = 0

ThreadsIdle ==
    /\ tpc = [t \in Threads |-> "idle"]
    /\ tyear = [t \in Threads |-> 0]
    /\ tval = [t \in Threads |-> 0]
    /\ readers = {}
    /\ writer = {}
    /\ calls = [t \in Threads |-> 0]

Init ==
    /\ crate \in Crates
    /\ overflow_checks \in BOOLEAN
    /\ ELAPSED_DAYS_CACHE \in InitialCaches
    /\ \/ /\ op = "hebrew_to_absolute"
          /\ arg \in {a \in HebrewDates :
                        valid_hebrew_date(a.year, a.month, a.day)}
       \/ /\ op = "try_from_absolute"
          /\ arg \in {Arg(0, 0, 0, a) : a \in AbsoluteDays}
       \/ /\ op = "try_from_ym"
          /\ arg \in {Arg(y, m, 0, 0) : y \in HebrewYears, m \in 0..MaxMonthArg}
       \/ /\ op \in {"months_in_year", "days_in_year", "elapsed_days"}
          /\ arg \in {Arg(y, 0, 0, 0) : y \in HebrewYears \cup SmallYears}
    /\ ret = NoResult
    /\ pc = "call"
    /\ ThreadsIdle
    /\ HdateUnset

Returns(r, years) ==
    /\ ret' = r
    /\ ELAPSED_DAYS_CACHE' = cache_insert(years)
    /\ pc' = "done"
    /\ UNCHANGED <<crate, overflow_checks, op, arg,
                   tpc, tyear, tval, readers, writer, hdate, origin, net,
                   calls>>

Call_hebrew_to_absolute ==
    /\ pc = "call" /\ op = "hebrew_to_absolute"
    /\ Returns(Value(hebrew_to_absolute(arg.year, arg.month, arg.day)),
               years_of_hebrew_to_absolute(arg.year, arg.month))

Call_try_from_absolute ==
    /\ pc = "call" /\ op = "try_from_absolute"
    /\ \E r \in try_from_absolute(arg.absolute) :
          Returns(r, years_of_try_from_absolute(arg.absolute))

Call_try_from_ym ==
    /\ pc = "call" /\ op = "try_from_ym"
    /\ Returns(try_from_ym(arg.month, arg.year), {})

Call_months_in_year ==
    /\ pc = "call" /\ op = "months_in_year"
    /\ Returns(Value(months_in_year(arg.year)), {})

Call_days_in_year ==
    /\ pc = "call" /\ op = "days_in_year"
    /\ Returns(Value(days_in_year(arg.year)), {arg.year, arg.year + 1})

Call_elapsed_days ==
    /\ pc = "call" /\ op = "elapsed_days"
    /\ Returns(Value(elapsed_days(arg.year)), {arg.year})

Next ==
    \/ Call_hebrew_to_absolute
    \/ Call_try_from_absolute
    \/ Call_try_from_ym
    \/ Call_months_in_year
    \/ Call_days_in_year
    \/ Call_elapsed_days

Spec == Init /\ [][Next]_vars

-----------------------------------------------------------------------------
(* The Gregorian caller                                                    *)

\* years before, at and after year 0, the leap-year rules 4 / 100 / 400
\* (-400, -100, 1900, 2000) and the year of the Hebrew anchor 5765
GregorianAnchorYears == {-400, -100, 0, 1900, 2000, 2004}

GregorianYears ==
    {a + i : a \in GregorianAnchorYears, i \in (0 - GregSpan)..GregSpan}

\* the dates a NaiveDate can hold
GregorianDates ==
    {a \in {Arg(y, m, d, 0) : y \in GregorianYears, m \in 1..12, d \in 1..31} :
        NaiveDate_from_ymd_opt(a.year, a.month, a.day).tag = "Some"}

GregorianDays ==
    UNION {to_fixed_days(y, 1, 1)..to_fixed_days(y, 12, 31) : y \in GregorianYears}

InitGregorian ==
    /\ crate = "hdate_core"
    /\ overflow_checks \in BOOLEAN
    /\ ELAPSED_DAYS_CACHE = EmptyCache
    /\ \/ /\ op = "gregorian_to_absolute"
          /\ arg \in GregorianDates
       \/ /\ op = "absolute_to_gregorian"
          /\ arg \in {Arg(0, 0, 0, a) : a \in GregorianDays}
    /\ ret = NoResult
    /\ pc = "call"
    /\ ThreadsIdle
    /\ HdateUnset

Call_gregorian_to_absolute ==
    /\ pc = "call" /\ op = "gregorian_to_absolute"
    /\ Returns(gregorian_to_absolute(arg.year, arg.month, arg.day), {})

Call_absolute_to_gregorian ==
    /\ pc = "call" /\ op = "absolute_to_gregorian"
    /\ Returns(absolute_to_gregorian(arg.absolute), {})

NextGregorian ==
    \/ Call_gregorian_to_absolute
    \/ Call_absolute_to_gregorian

SpecGregorian == InitGregorian /\ [][NextGregorian]_vars

-----------------------------------------------------------------------------
(* The Gregorian functions on arbitrary arguments                          *)

\* months 0..13 and days 0..32 reach both sides of every range check
InitGregorianArgs ==
    /\ crate = "hdate_core"
    /\ overflow_checks \in BOOLEAN
    /\ ELAPSED_DAYS_CACHE = EmptyCache
    /\ \/ /\ op = "gregorian_days_in_month"
          /\ arg \in {Arg(y, m, 0, 0) : y \in GregorianYears,
                                        m \in 0..MaxGregorianMonthArg}
       \/ /\ op = "to_fixed"
          /\ arg \in {Arg(y, m, d, 0) : y \in GregorianYears,
                                        m \in 0..MaxGregorianMonthArg,
                                        d \in 0..MaxGregorianDayArg}
    /\ ret = NoResult
    /\ pc = "call"
    /\ ThreadsIdle
    /\ HdateUnset

Call_gregorian_days_in_month ==
    /\ pc = "call" /\ op = "gregorian_days_in_month"
    /\ Returns(IF arg.month \in 1..12
               THEN Value(gregorian_days_in_month(arg.month, arg.year))
               ELSE Panic, {})

Call_to_fixed ==
    /\ pc = "call" /\ op = "to_fixed"
    /\ Returns(to_fixed(arg.year, arg.month, arg.day), {})

NextGregorianArgs ==
    \/ Call_gregorian_days_in_month
    \/ Call_to_fixed

SpecGregorianArgs == InitGregorianArgs /\ [][NextGregorianArgs]_vars

-----------------------------------------------------------------------------
(* elapsed_days called by concurrent threads                               *)
(*                                                                         *)
(* One action per step of elapsed_days: the read guard is a temporary of   *)
(* the `if let`, so it is released before the value is computed and before *)
(* the write guard is asked for.                                           *)

CacheYears == 0..MaxCacheYear

\* an insert that files the value under the following year
cache_put_next_year(cache, year, value) ==
    [y \in (DOMAIN cache) \cup {year + 1} |->
        IF y = year + 1 THEN value ELSE cache[y]]

\* an insert into a fresh map: the entries of other years are lost
cache_put_alone(cache, year, value) == [y \in {year} |-> value]

\* an insert that moves the entry of a year already present on by one day
cache_put_moving_on(cache, year, value) ==
    [y \in (DOMAIN cache) \cup {year} |->
        IF y # year THEN cache[y]
        ELSE IF year \in DOMAIN cache THEN cache[year] + 1 ELSE value]

\* HashMap::insert
cache_put(cache, year, value) ==
    [y \in (DOMAIN cache) \cup {year} |-> IF y = year THEN value ELSE cache[y]]

\* `year - 1` with year = 0 panics when overflow checks are on
elapsed_days_panics(year) ==
    crate = "hdate_core" /\ year = 0 /\ overflow_checks

InitCache ==
    /\ crate \in Crates
    /\ overflow_checks \in BOOLEAN
    /\ ELAPSED_DAYS_CACHE = EmptyCache
    /\ op = "elapsed_days"
    /\ arg = Arg(0, 0, 0, 0)
    /\ ret = NoResult
    /\ pc = "threads"
    /\ ThreadsIdle
    /\ HdateUnset

ThreadStep(t, to, year, val) ==
    /\ tpc' = [tpc EXCEPT ![t] = to]
    /\ tyear' = [tyear EXCEPT ![t] = year]
    /\ tval' = [tval EXCEPT ![t] = val]
    /\ UNCHANGED <<crate, overflow_checks, op, arg, ret, pc,
                   hdate, origin, net, calls>>

\* a thread enters elapsed_days(year)
T_call(t) ==
    /\ pc = "threads" /\ tpc[t] \in {"idle", "returned"}
    /\ \E year \in CacheYears : ThreadStep(t, "read", year, 0)
    /\ UNCHANGED <<ELAPSED_DAYS_CACHE, readers, writer>>

\* ELAPSED_DAYS_CACHE.read().unwrap(): blocks while a writer holds the lock
T_read(t) ==
    /\ pc = "threads" /\ tpc[t] = "read"
    /\ writer = {}
    /\ readers' = readers \cup {t}
    /\ ThreadStep(t, "get", tyear[t], 0)
    /\ UNCHANGED <<ELAPSED_DAYS_CACHE, writer>>

\* .get(&year) is Some(days): return *days, dropping the read guard
T_hit(t) ==
    /\ pc = "threads" /\ tpc[t] = "get"
    /\ tyear[t] \in DOMAIN ELAPSED_DAYS_CACHE
    /\ readers' = readers \ {t}
    /\ ThreadStep(t, "returned", tyear[t], ELAPSED_DAYS_CACHE[tyear[t]])
    /\ UNCHANGED <<ELAPSED_DAYS_CACHE, writer>>

\* a miss that keeps the read guard while the body goes on
T_miss_keeping_guard(t) ==
    /\ pc = "threads" /\ tpc[t] = "get"
    /\ tyear[t] \notin DOMAIN ELAPSED_DAYS_CACHE
    /\ readers' = readers
    /\ ThreadStep(t, "compute", tyear[t], 0)
    /\ UNCHANGED <<ELAPSED_DAYS_CACHE, writer>>

\* .get(&year) is None: the read guard is dropped, the body goes on
T_miss(t) ==
    /\ pc = "threads" /\ tpc[t] = "get"
    /\ tyear[t] \notin DOMAIN ELAPSED_DAYS_CACHE
    /\ readers' = readers \ {t}
    /\ ThreadStep(t, "compute", tyear[t], 0)
    /\ UNCHANGED <<ELAPSED_DAYS_CACHE, writer>>

\* previous_year ... alt_day, no lock held
T_compute(t) ==
    /\ pc = "threads" /\ tpc[t] = "compute"
    /\ IF elapsed_days_panics(tyear[t])
       THEN ThreadStep(t, "panicked", tyear[t], 0)
       ELSE ThreadStep(t, "write", tyear[t], elapsed_days_compute(tyear[t]))
    /\ UNCHANGED <<ELAPSED_DAYS_CACHE, readers, writer>>

\* a write lock that waits for the writer only, not for the readers
T_write_ignoring_readers(t) ==
    /\ pc = "threads" /\ tpc[t] = "write"
    /\ writer = {}
    /\ writer' = {t}
    /\ ThreadStep(t, "insert", tyear[t], tval[t])
    /\ UNCHANGED <<ELAPSED_DAYS_CACHE, readers>>

\* ELAPSED_DAYS_CACHE.write().unwrap(): blocks while any guard is held
T_write(t) ==
    /\ pc = "threads" /\ tpc[t] = "write"
    /\ readers = {} /\ writer = {}
    /\ writer' = {t}
    /\ ThreadStep(t, "insert", tyear[t], tval[t])
    /\ UNCHANGED <<ELAPSED_DAYS_CACHE, readers>>

\* .insert(year, alt_day); the write guard is dropped; alt_day is returned
T_insert(t) ==
    /\ pc = "threads" /\ tpc[t] = "insert"
    /\ ELAPSED_DAYS_CACHE' = cache_put(ELAPSED_DAYS_CACHE, tyear[t], tval[t])
    /\ writer' = {}
    /\ ThreadStep(t, "returned", tyear[t], tval[t])
    /\ UNCHANGED readers

NextCache ==
    \E t \in Threads :
        \/ T_call(t)
        \/ T_read(t)
        \/ T_hit(t)
        \/ T_miss(t)
        \/ T_compute(t)
        \/ T_write(t)
        \/ T_insert(t)

SpecCache == InitCache /\ [][NextCache]_vars

-----------------------------------------------------------------------------
(* The same threads, each making at most MaxCalls calls, under a fair      *)
(* scheduler: a thread that can go on does go on                           *)

\* a thread enters elapsed_days(year), a counted call
T_enter(t) ==
    /\ pc = "threads" /\ tpc[t] \in {"idle", "returned"}
    /\ calls[t] < MaxCalls
    /\ calls' = [calls EXCEPT ![t] = calls[t] + 1]
    /\ \E year \in CacheYears :
          /\ tpc' = [tpc EXCEPT ![t] = "read"]
          /\ tyear' = [tyear EXCEPT ![t] = year]
          /\ tval' = [tval EXCEPT ![t] = 0]
    /\ UNCHANGED <<crate, overflow_checks, ELAPSED_DAYS_CACHE, op, arg, ret, pc,
                   readers, writer, hdate, origin, net>>

\* the steps of a thread inside elapsed_days
T_inside(t) ==
    \/ T_read(t)
    \/ T_hit(t)
    \/ T_miss(t)
    \/ T_compute(t)
    \/ T_write(t)
    \/ T_insert(t)

NextCalls == \E t \in Threads : T_enter(t) \/ T_inside(t)

FairThreads == \A t \in Threads : WF_vars(T_inside(t))

SpecCalls == InitCache /\ [][NextCalls]_vars /\ FairThreads

\* days_in_month reads days_in_year for Cheshvan and Kislev only
years_of_days_in_month(month, year) ==
    IF month \in {Cheshvan, Kislev} THEN {year, year + 1} ELSE {}

InitMonths ==
    /\ crate \in Crates
    /\ overflow_checks \in BOOLEAN
    /\ ELAPSED_DAYS_CACHE \in InitialCaches
    /\ op = "days_in_month"
    /\ arg \in {Arg(y, m, 0, 0) : y \in HebrewYears \cup SmallYears,
                                 m \in Nisan..AdarII}
    /\ ret = NoResult
    /\ pc = "call"
    /\ ThreadsIdle
    /\ HdateUnset

Call_days_in_month ==
    /\ pc = "call" /\ op = "days_in_month"
    /\ Returns(Value(days_in_month(arg.month, arg.year)),
               years_of_days_in_month(arg.month, arg.year))

NextMonths == Call_days_in_month

SpecMonths == InitMonths /\ [][NextMonths]_vars

-----------------------------------------------------------------------------
(* Hdate (hdate/src/hdate.rs)                                              *)

\* `as u8` of a float saturates at both ends
as_u8(x) == IF x < 0 THEN 0 ELSE IF x > 255 THEN 255 ELSE x

\* Hdate::from_ymd for year >= 1
Hdate_from_ymd(year, month, day) ==
    Hdate(year, month, day, hebrew_to_absolute(year, month, day))

\* HebrewDate::try_from_absolute(rd).unwrap(), then Hdate { .., rd }
Hdate_of_absolute(r, rd) ==
    IF r.tag = "Ok" THEN Hdate(r.year, r.month, r.day, rd) ELSE HdatePanic

\* impl Add<i32>: the results the build can produce
Hdate_add(self, rhs) ==
    {Hdate_of_absolute(r, self.rd + rhs) : r \in try_from_absolute(self.rd + rhs)}

\* impl Sub<i32>: self + -rhs
Hdate_sub(self, rhs) == Hdate_add(self, 0 - rhs)

\* impl PartialEq
Hdate_eq(self, other) == self.rd = other.rd

\* partial_cmp compared on the month and day fields instead of rd
Hdate_lt_by_fields(self, other) ==
    \/ self.year < other.year
    \/ self.year = other.year /\ self.month < other.month
    \/ self.year = other.year /\ self.month = other.month /\ self.day < other.day

\* impl PartialOrd: self < other
Hdate_lt(self, other) == self.rd < other.rd

\* delta_days
delta_days(self, other) == self.rd - other.rd

\* (self.rd as f32 % 7.0).floor() as u8
get_week_day(self) == as_u8(f32_rem(self.rd, 7))

\* what a comparison of self with other yields
Comparison(self, other) ==
    [tag |-> "Comparison",
     eq |-> Hdate_eq(self, other),
     lt |-> Hdate_lt(self, other),
     delta |-> delta_days(self, other),
     delta_back |-> delta_days(other, self),
     delta_self |-> delta_days(self, self)]

\* year 1 (next to the epoch), 3761 (absolute day 0 falls in it) and 5782
HdateYears == {1, 3761, 5782}

HdateDays == {1, 15, 30}

HdateStartDates ==
    {a \in {Arg(y, m, d, 0) : y \in HdateYears, m \in Nisan..AdarII, d \in HdateDays} :
        valid_hebrew_date(a.year, a.month, a.day)}

\* dates a value is compared with: months on both sides of Tishrei and of
\* absolute day 0
HdateOthers ==
    {Arg(3761, Elul, 29, 0), Arg(3761, Tishrei, 15, 0), Arg(5782, Tishrei, 1, 0)}

\* the numbers of days added or subtracted in one step
AddDays == {1, 40}

InitHdate ==
    /\ crate \in Crates
    /\ overflow_checks \in BOOLEAN
    /\ ELAPSED_DAYS_CACHE = EmptyCache
    /\ op = "none"
    /\ arg = Arg(0, 0, 0, 0)
    /\ ret = NoResult
    /\ pc = "hdate"
    /\ ThreadsIdle
    /\ HdateUnset

HdateStep(o, a, r, years) ==
    /\ op' = o
    /\ arg' = a
    /\ ret' = r
    /\ ELAPSED_DAYS_CACHE' = cache_insert(years)
    /\ UNCHANGED <<crate, overflow_checks, tpc, tyear, tval, readers, writer,
                   calls>>

H_from_ymd ==
    /\ pc = "hdate" /\ hdate = NoHdate
    /\ \E a \in HdateStartDates :
          /\ hdate' = Hdate_from_ymd(a.year, a.month, a.day)
          /\ origin' = Hdate_from_ymd(a.year, a.month, a.day)
          /\ HdateStep("from_ymd", a, NoResult,
                       years_of_hebrew_to_absolute(a.year, a.month))
    /\ UNCHANGED <<pc, net>>

\* hdate = hdate + rhs, or hdate - rhs when rhs is negative
HdateMoves(rhs, results) ==
    /\ pc = "hdate" /\ hdate.tag = "Hdate"
    /\ net + rhs >= 0 - MaxNet /\ net + rhs <= MaxNet
    /\ \E r \in results : hdate' = r
    /\ net' = net + rhs
    /\ HdateStep(IF rhs < 0 THEN "sub" ELSE "add",
                 Arg(0, 0, 0, IF rhs < 0 THEN 0 - rhs ELSE rhs), NoResult,
                 years_of_try_from_absolute(hdate.rd + rhs))
    /\ UNCHANGED <<pc, origin>>

H_add == \E n \in AddDays : HdateMoves(n, Hdate_add(hdate, n))

H_sub == \E n \in AddDays : HdateMoves(0 - n, Hdate_sub(hdate, n))

H_compare ==
    /\ pc = "hdate" /\ hdate.tag = "Hdate"
    /\ \E b \in HdateOthers :
          HdateStep("compare", b,
                    Comparison(hdate, Hdate_from_ymd(b.year, b.month, b.day)),
                    years_of_hebrew_to_absolute(b.year, b.month))
    /\ pc' = "done"
    /\ UNCHANGED <<hdate, origin, net>>

H_get_week_day ==
    /\ pc = "hdate" /\ hdate.tag = "Hdate"
    /\ HdateStep("get_week_day", Arg(0, 0, 0, 0), Value(get_week_day(hdate)), {})
    /\ pc' = "done"
    /\ UNCHANGED <<hdate, origin, net>>

NextHdate ==
    \/ H_from_ymd
    \/ H_add
    \/ H_sub
    \/ H_compare
    \/ H_get_week_day

SpecHdate == InitHdate /\ [][NextHdate]_vars

-----------------------------------------------------------------------------
(* Molad (hdate/src/molad_event.rs); every value is an f32 holding an      *)
(* integer below 2^24, so the arithmetic is exact                          *)

\* `as u16` of a float saturates at both ends
as_u16(x) == IF x < 0 THEN 0 ELSE IF x > 65535 THEN 65535 ELSE x

\* month - 7, moved forward by the months of the year unless it is positive
adjusted_month(year, month) ==
    IF month - 7 > 0 THEN month - 7 ELSE month - 7 + months_in_year(year)

\* overall_months + regular_months + leap_months + adjusted_month
molad_elapsed_months(year, month) ==
    235 * ((year - 1) \div 19)
      + 12 * f32_rem(year - 1, 19)
      + (7 * f32_rem(year - 1, 19) + 1) \div 19
      + adjusted_month(year, month)

molad_elapsed_parts(months) == 204 + 793 * f32_rem(months, 1080)

\* elapsed_hours counted from 18:00, without the - 6.0
molad_elapsed_hours_from_evening(months, eparts) ==
    5 + 12 * months + 793 * (months \div 1080) + (eparts \div 1080)

molad_elapsed_hours(months, eparts) ==
    5 + 12 * months + 793 * (months \div 1080) + (eparts \div 1080) - 6

\* let parts = ...; let parts = parts % 1080.0
molad_parts(eparts, ehours) ==
    f32_rem(f32_rem(eparts, 1080) + 1080 * f32_rem(ehours, 24), 1080)

molad_day(months, ehours) == 1 + 29 * months + (ehours \div 24)

\* the struct literal of Molad::new
Molad(year, month, day, ehours, parts) ==
    [tag |-> "Molad", year |-> year, month |-> month,
     day_of_week |-> as_u8(f32_rem(day, 7)),
     hour |-> as_u8(f32_rem(ehours, 24)),
     minute |-> as_u8(parts \div 18),
     parts |-> as_u16(f32_rem(parts, 18))]

Molad_from_hours(year, month, months, eparts, ehours) ==
    Molad(year, month, molad_day(months, ehours), ehours,
          molad_parts(eparts, ehours))

Molad_from_parts(year, month, months, eparts) ==
    Molad_from_hours(year, month, months, eparts,
                     molad_elapsed_hours(months, eparts))

Molad_from_months(year, month, months) ==
    Molad_from_parts(year, month, months, molad_elapsed_parts(months))

Molad_new(year, month) ==
    Molad_from_months(year, month, molad_elapsed_months(year, month))

\* the years a molad is asked for: the first two cycles, the anchors, 5769
MoladYears == SmallYears \cup HebrewYears \cup {5769}

InitMolad ==
    /\ crate \in Crates
    /\ overflow_checks \in BOOLEAN
    /\ ELAPSED_DAYS_CACHE = EmptyCache
    /\ op = "Molad_new"
    /\ \E y \in MoladYears, m \in Nisan..AdarII : arg = Arg(y, m, 0, 0)
    /\ ret = NoResult
    /\ pc = "call"
    /\ ThreadsIdle
    /\ HdateUnset

Call_Molad_new ==
    /\ pc = "call" /\ op = "Molad_new"
    /\ Returns(Molad_new(arg.year, arg.month), {})

NextMolad == Call_Molad_new

SpecMolad == InitMolad /\ [][NextMolad]_vars

-----------------------------------------------------------------------------
(* Properties                                                              *)

\* C1: for every valid Hebrew date d, try_from_absolute(hebrew_to_absolute(d))
\* succeeds and returns exactly d.
C1_HebrewRoundTrip ==
    (pc = "done" /\ op = "hebrew_to_absolute")
        => try_from_absolute(ret.year) = {Ok(arg.year, arg.month, arg.day)}

\* C2: for every valid Gregorian date d,
\* absolute_to_gregorian(gregorian_to_absolute(d)) returns exactly d.
C2_GregorianRoundTrip ==
    (pc = "done" /\ op = "gregorian_to_absolute")
        => /\ ret.tag = "Value"
           /\ absolute_to_gregorian(ret.year)
                = Result("Some", arg.year, arg.month, arg.day)

\* the leap day of a year before year 0 has been converted, and converts back
C2_LeapDayConverted ==
    /\ pc = "done" /\ op = "gregorian_to_absolute"
    /\ arg.year = -400 /\ arg.month = 2 /\ arg.day = 29
    /\ ret.tag = "Value" /\ ret.year < 0
    /\ absolute_to_gregorian(ret.year).tag = "Some"

\* C3: Hebrew (5765, AdarII, 22) and Gregorian 2005-04-02 both map to day
\* 732038, Hebrew (3761, Tevet, 17) maps to day 0, and Hebrew (3761, Tevet,
\* 18) and Gregorian 0001-01-01 both map to day 1.
C3_SharedAxis ==
    (pc = "done" /\ op = "hebrew_to_absolute")
        => /\ arg = Arg(5765, AdarII, 22, 0)
                => ret = Value(732038) /\ gregorian_to_absolute(2005, 4, 2) = ret
           /\ arg = Arg(3761, Tevet, 17, 0) => ret = Value(0)
           /\ arg = Arg(3761, Tevet, 18, 0)
                => ret = Value(1) /\ gregorian_to_absolute(1, 1, 1) = ret

\* 22 Adar II 5765 has been converted to the day of 2005-04-02
C3_AnchorConverted ==
    /\ pc = "done" /\ op = "hebrew_to_absolute"
    /\ arg = Arg(5765, AdarII, 22, 0)
    /\ ret = gregorian_to_absolute(2005, 4, 2)

\* the date that follows (year, month, day): day + 1 in the month, or day 1
\* of the next month of the year, or 1 Tishrei of year + 1 after Elul
following_date(year, month, day) ==
    IF day < days_in_month(month, year) THEN Ok(year, month, day + 1)
    ELSE IF month = Elul THEN Ok(year + 1, Tishrei, 1)
    ELSE IF month = months_in_year(year) THEN Ok(year, Nisan, 1)
    ELSE Ok(year, month + 1, 1)

\* C4: when absolute days n and n+1 both convert, the Hebrew date of n+1 is
\* the date that follows the Hebrew date of n.
C4_ConsecutiveDaysAdjacent ==
    (pc = "done" /\ op = "try_from_absolute" /\ ret.tag = "Ok")
        => \A next \in try_from_absolute(arg.absolute + 1) :
              next.tag = "Ok" => next = following_date(ret.year, ret.month, ret.day)

\* C5: try_from_absolute(EPOCH - 1) returns the BeforeEpoch error and
\* try_from_absolute(EPOCH) succeeds and returns a Hebrew date.
C5_EpochBoundary ==
    (pc = "done" /\ op = "try_from_absolute")
        => /\ arg.absolute = EPOCH - 1 => ret = BeforeEpochError
           /\ arg.absolute = EPOCH => ret.tag = "Ok"

\* C6: try_from_absolute rejects an absolute day if and only if it is below
\* EPOCH: every absolute < EPOCH yields the BeforeEpoch error value, not a
\* panic, and no absolute >= EPOCH is rejected as before the epoch.
C6_RejectsIffBeforeEpoch ==
    (pc = "done" /\ op = "try_from_absolute")
        => /\ arg.absolute < EPOCH => ret = BeforeEpochError
           /\ arg.absolute >= EPOCH => ret # BeforeEpochError

\* C7: try_from_ym returns the BadMonthArgument error for month 0, for
\* month > 14 and for month 14 in a non-leap year, Nisan for month 14 in a
\* leap year and for month 13 in a non-leap year, and the month numbered
\* `month` in every other case.
C7_TryFromYm ==
    (pc = "done" /\ op = "try_from_ym")
        => ret = IF \/ arg.month = 0 \/ arg.month > 14
                    \/ (arg.month = 14 /\ ~is_leap_year(arg.year))
                 THEN BadMonthArgument
                 ELSE IF \/ (arg.month = 14 /\ is_leap_year(arg.year))
                         \/ (arg.month = 13 /\ ~is_leap_year(arg.year))
                      THEN Value(Nisan)
                      ELSE Value(arg.month)

\* C8: exactly 7 of the 19 years y, ..., y + 18 are leap years, and
\* months_in_year is 13 for those years and 12 for the others.
C8_LeapYearDensity ==
    (pc = "done" /\ op = "months_in_year")
        => LET window == arg.year..(arg.year + 18)
           IN  /\ Cardinality({y \in window : is_leap_year(y)}) = 7
               /\ \A y \in window :
                     months_in_year(y) = IF is_leap_year(y) THEN 13 ELSE 12
               /\ ret = Value(IF is_leap_year(arg.year) THEN 13 ELSE 12)

\* months_in_year has answered 13 for a leap year that opens a window
C8_LeapYearAsked ==
    /\ pc = "done" /\ op = "months_in_year"
    /\ is_leap_year(arg.year) /\ ~is_leap_year(arg.year + 18)
    /\ ret = Value(13)

\* C9: days_in_year(y) is one of 353, 354, 355, 383, 384, 385, and it is
\* one of 383, 384, 385 exactly when y is a leap year.
C9_YearLengths ==
    (pc = "done" /\ op = "days_in_year")
        => /\ ret.tag = "Value"
           /\ ret.year \in {353, 354, 355, 383, 384, 385}
           /\ ret.year % 10 \in {3, 4, 5, 7}
           /\ ret.year >= 383 <=> is_leap_year(arg.year)

\* days_in_year has answered 385 for a leap year
C9_LongLeapYearAsked ==
    /\ pc = "done" /\ op = "days_in_year"
    /\ is_leap_year(arg.year)
    /\ ret = Value(385)

\* C10: every entry (y, v) of the cache has v equal to the value computed
\* for y, and every call of elapsed_days(y), by any thread after any earlier
\* calls, returns the value computed for y.
C10_CacheTransparent ==
    /\ \A y \in DOMAIN ELAPSED_DAYS_CACHE :
          ELAPSED_DAYS_CACHE[y] = elapsed_days_compute(y)
    /\ \A t \in Threads :
          tpc[t] = "returned" => tval[t] = elapsed_days_compute(tyear[t])

\* a thread has returned the cached value of a year while another thread,
\* which missed the same year earlier, is about to insert it again
C10_HitWhileOtherInserts ==
    \E t, u \in Threads :
        /\ t # u /\ tyear[t] = tyear[u] /\ tyear[t] >= 1
        /\ tpc[t] = "returned" /\ tpc[u] = "write"
        /\ tyear[t] \in DOMAIN ELAPSED_DAYS_CACHE
        /\ tval[t] = ELAPSED_DAYS_CACHE[tyear[t]]

C12_ToFixedFailsIffInvalid ==
    (pc = "done" /\ op = "to_fixed")
        => LET valid == /\ arg.month \in 1..12
                        /\ arg.day >= 1
                        /\ arg.day <= gregorian_days_in_month(arg.month, arg.year)
           IN  /\ ret.tag = (IF valid THEN "Value" ELSE "Panic")
               /\ valid <=> NaiveDate_from_ymd_opt(arg.year, arg.month,
                                                   arg.day).tag = "Some"

\* to_fixed has refused 29 February of the common year 1900
C12_CommonYearLeapDayRefused ==
    /\ pc = "done" /\ op = "to_fixed"
    /\ arg.year = 1900 /\ arg.month = 2 /\ arg.day = 29
    /\ ret = Panic

\* the Hebrew date of an absolute day: the existing date that converts to it
is_hebrew_date_of(h, rd) ==
    /\ valid_hebrew_date(h.year, h.month, h.day)
    /\ hebrew_to_absolute(h.year, h.month, h.day) = rd

\* C13: after any sequence of + n and - n that stays at or after the epoch,
\* the Hdate's rd is the starting rd plus the net number of days, its year,
\* month and day are the Hebrew date of that rd, and adding n then
\* subtracting n gives back an equal Hdate; (5782, Tishrei, 1) + 40 is
\* (5782, Cheshvan, 11) and (5782, Tishrei, 1) - 40 is (5781, Av, 20).
C13_AddSubDays ==
    (pc = "hdate" /\ op \in {"add", "sub"} /\ origin.rd + net >= EPOCH)
        => /\ hdate.tag = "Hdate"
           /\ hdate.rd = origin.rd + net
           /\ is_hebrew_date_of(hdate, hdate.rd)
           /\ \A n \in AddDays : \A r1 \in Hdate_add(hdate, n) :
                /\ r1.tag = "Hdate"
                /\ \A r2 \in Hdate_sub(r1, n) :
                     r2.tag = "Hdate" /\ Hdate_eq(r2, hdate)
           /\ (origin = Hdate_from_ymd(5782, Tishrei, 1) /\ net = 40)
                => <<hdate.year, hdate.month, hdate.day>> = <<5782, Cheshvan, 11>>
           /\ (origin = Hdate_from_ymd(5782, Tishrei, 1) /\ net = 0 - 40)
                => <<hdate.year, hdate.month, hdate.day>> = <<5781, Av, 20>>


\* months counted from Tishrei, the first month of the Hebrew year
month_of_year(month) == IF month >= Tishrei THEN month - Tishrei ELSE month + 6

\* a is an earlier day than b
chronologically_before(a, b) ==
    \/ a.year < b.year
    \/ a.year = b.year /\ month_of_year(a.month) < month_of_year(b.month)
    \/ a.year = b.year /\ a.month = b.month /\ a.day < b.day

C15_WeekDayFloorMod ==
    (pc = "done" /\ op = "get_week_day")
        => ret = Value(hdate.rd % 7)


\* months from Tishrei of the year to the month, in the order of the year
months_since_tishrei(year, month) == (month - Tishrei) % months_in_year(year)

\* months from the first molad to the molad of the month
months_since_first_molad(year, month) ==
    235 * ((year - 1) \div 19) + 12 * ((year - 1) % 19)
      + (7 * ((year - 1) % 19) + 1) \div 19
      + months_since_tishrei(year, month)

\* C16: for every year >= 1 and every month of that year, Molad::new gives
\* day_of_week in 0..6, hour in 0..23, minute in 0..59, parts in 0..17, and
\* minute * 18 + parts is the number of parts within the hour of the month's
\* mean conjunction.
C16_MoladFields ==
    (pc = "done" /\ op = "Molad_new" /\ arg.month <= months_in_year(arg.year))
        => /\ ret.day_of_week \in 0..6
           /\ ret.hour \in 0..23
           /\ ret.minute \in 0..59
           /\ ret.parts \in 0..17
           /\ ret.minute * 18 + ret.parts
                = (204 + 793 * months_since_first_molad(arg.year, arg.month)) % 1080

\* C17: the molad of Tevet 5769 is Saturday (6), hour 16, 10 minutes and
\* 16 chalakim.
C17_MoladTevet5769 ==
    (pc = "done" /\ op = "Molad_new" /\ arg.year = 5769 /\ arg.month = Tevet)
        => /\ ret.day_of_week = 6
           /\ ret.hour = 16
           /\ ret.minute = 10
           /\ ret.parts = 16

C17_Tevet5769Asked ==
    /\ pc = "done" /\ op = "Molad_new" /\ arg.year = 5769 /\ arg.month = Tevet
    /\ ret.tag = "Molad"


\* the reference computation of the days elapsed before a year
reference_is_leap(y) == (7 * y + 1) % 19 < 7

reference_months(y) ==
    235 * ((y - 1) \div 19) + 12 * ((y - 1) % 19)
      + (7 * ((y - 1) % 19) + 1) \div 19

reference_total_parts(m) == (5 * 1080 + 204) + m * (12 * 1080 + 793)

reference_raw_day(m) == 1 + 29 * m + reference_total_parts(m) \div 25920

reference_moved_day(y, day, parts) ==
    IF \/ parts >= 19440
       \/ (day % 7 = 2 /\ parts >= 9924 /\ ~reference_is_leap(y))
       \/ (day % 7 = 1 /\ parts >= 16789 /\ reference_is_leap(y - 1))
    THEN day + 1 ELSE day

reference_new_year_day(day) == IF day % 7 \in {0, 3, 5} THEN day + 1 ELSE day

reference_elapsed_days(y) ==
    reference_new_year_day(
        reference_moved_day(y, reference_raw_day(reference_months(y)),
                            reference_total_parts(reference_months(y)) % 25920))

\* C18: for every year y >= 1, elapsed_days(y) equals the reference
\* computation from the elapsed months and total parts of the molad with the
\* four postponements; elapsed_days(1) = 1, elapsed_days(2) = 356 and
\* elapsed_days(5780) = 2110760.
C18_ElapsedDaysReference ==
    (pc = "done" /\ op = "elapsed_days" /\ arg.year >= 1)
        => /\ ret = Value(reference_elapsed_days(arg.year))
           /\ arg.year = 1 => ret = Value(1)
           /\ arg.year = 2 => ret = Value(356)
           /\ arg.year = 5780 => ret = Value(2110760)

C18_Year5780Asked ==
    pc = "done" /\ op = "elapsed_days" /\ arg.year = 5780 /\ ret = Value(2110760)

\* C19: for every year y >= 1, elapsed_days(y) mod 7 is never 0, 3 or 5;
\* equivalently the absolute day of (y, Tishrei, 1) never falls on weekday
\* 0, 3 or 5 (Sunday, Wednesday, Friday).
C19_NewYearWeekday ==
    /\ (pc = "done" /\ op = "elapsed_days" /\ arg.year >= 1)
          => ret.tag = "Value" /\ ret.year % 7 \notin {0, 3, 5}
    /\ (pc = "done" /\ op = "hebrew_to_absolute"
          /\ arg.month = Tishrei /\ arg.day = 1)
          => ret.tag = "Value" /\ ret.year % 7 \notin {0, 3, 5}

\* a year whose new year is moved on by the last step (from a Sunday)
C19_PostponedYearAsked ==
    /\ pc = "done" /\ op = "elapsed_days" /\ arg.year >= 1
    /\ ret.tag = "Value"
    /\ ret.year = reference_moved_day(arg.year,
                      reference_raw_day(reference_months(arg.year)),
                      reference_total_parts(reference_months(arg.year)) % 25920) + 1


reference_days_in_year(y) ==
    reference_elapsed_days(y + 1) - reference_elapsed_days(y)

\* C20: days_in_month is 30 for Nisan, Sivan, Av, Tishrei and Shvat, 29 for
\* Iyyar, Tamuz, Elul, Tevet and AdarII, 30 for AdarI exactly in leap years,
\* 30 for Cheshvan exactly when days_in_year mod 10 = 5, and 29 for Kislev
\* exactly when days_in_year mod 10 = 3.
C20_DaysInMonth ==
    (pc = "done" /\ op = "days_in_month")
        => /\ ret.tag = "Value" /\ ret.year \in {29, 30}
           /\ arg.month \in {Nisan, Sivan, Av, Tishrei, Shvat} => ret.year = 30
           /\ arg.month \in {Iyyar, Tamuz, Elul, Tevet, AdarII} => ret.year = 29
           /\ arg.month = AdarI
                => (ret.year = 30 <=> reference_is_leap(arg.year))
           /\ arg.month = Cheshvan
                => (ret.year = 30 <=> reference_days_in_year(arg.year) % 10 = 5)
           /\ arg.month = Kislev
                => (ret.year = 29 <=> reference_days_in_year(arg.year) % 10 = 3)

\* Kislev of a short year (5781 has 353 days)
C20_ShortKislevAsked ==
    /\ pc = "done" /\ op = "days_in_month"
    /\ arg.year = 5781 /\ arg.month = Kislev /\ ret = Value(29)


\* the calendar day after a date of the proleptic Gregorian calendar
next_gregorian_date(year, month, day) ==
    IF NaiveDate_from_ymd_opt(year, month, day + 1).tag = "Some"
    THEN Arg(year, month, day + 1, 0)
    ELSE IF month < 12 THEN Arg(year, month + 1, 1, 0)
    ELSE Arg(year + 1, 1, 1, 0)

to_fixed_of(date) == to_fixed(date.year, date.month, date.day)

\* C21: to_fixed advances by exactly 1 from each valid date to the next
\* calendar day, across month ends, 28/29 February and year ends, for
\* positive, zero and negative years; to_fixed(-1, 1, 1) = -730,
\* to_fixed(-1, 3, 1) = -671 and to_fixed(1, 1, 1) = 1.
C21_ToFixedAdvancesByOne ==
    (pc = "done" /\ op = "to_fixed" /\ ret.tag = "Value")
        => /\ to_fixed_of(next_gregorian_date(arg.year, arg.month, arg.day))
                = Value(ret.year + 1)
           /\ <<arg.year, arg.month, arg.day>> = <<-1, 1, 1>> => ret = Value(-730)
           /\ <<arg.year, arg.month, arg.day>> = <<-1, 3, 1>> => ret = Value(-671)
           /\ <<arg.year, arg.month, arg.day>> = <<1, 1, 1>> => ret = Value(1)

\* the last day of February of a leap year before year 1
C21_NegativeLeapDayAsked ==
    /\ pc = "done" /\ op = "to_fixed" /\ ret.tag = "Value"
    /\ <<arg.year, arg.month, arg.day>> = <<-400, 2, 29>>
    /\ to_fixed(-400, 3, 1) = Value(ret.year + 1)

previous_month(year, month) ==
    IF month = Nisan THEN months_in_year(year) ELSE month - 1

\* the time of a molad within the week, in parts
parts_of_week(molad) ==
    (molad.day_of_week * 24 + molad.hour) * 1080
        + molad.minute * 18 + molad.parts

\* 29 days 12 hours 793 parts
MeanLunation == 29 * 25920 + 12 * 1080 + 793

\* C23: the month offset of the molad computation is month - 7, moved
\* forward by months_in_year(year) only when it is negative; for Tishrei it
\* is 0, so Molad(year, Tishrei) counts the elapsed months that
\* elapsed_days(year) counts, and the molad of each later month of the year
\* is one mean lunation after the molad of the month before it.
C23_MoladMonthOffset ==
    (pc = "done" /\ op = "Molad_new" /\ arg.month <= months_in_year(arg.year))
        => /\ adjusted_month(arg.year, arg.month)
                = (IF arg.month - 7 < 0
                   THEN arg.month - 7 + months_in_year(arg.year)
                   ELSE arg.month - 7)
           /\ arg.month = Tishrei
                => molad_elapsed_months(arg.year, arg.month)
                     = elapsed_months(arg.year - 1)
           /\ arg.month # Tishrei
                => parts_of_week(ret)
                     = (parts_of_week(Molad_new(arg.year,
                                         previous_month(arg.year, arg.month)))
                          + MeanLunation) % (7 * 25920)


\* the absolute day of 1 Tishrei of a year, by the reference computation
reference_new_year(y) == EPOCH + reference_elapsed_days(y)

\* C24: for every absolute day a at or after 1 Tishrei of year 1, the year y
\* chosen by try_from_absolute satisfies new_year(y) <= a < new_year(y + 1);
\* the initial estimate is not above y, and y is never 0.
C24_YearChosen ==
    (pc = "done" /\ op = "try_from_absolute"
        /\ arg.absolute >= reference_new_year(1))
        => /\ ret.tag = "Ok"
           /\ reference_new_year(ret.year) <= arg.absolute
           /\ arg.absolute < reference_new_year(ret.year + 1)
           /\ year_estimate(arg.absolute) <= ret.year
           /\ ret.year # 0


\* C25: the cache is append-only: no step removes or changes an entry; a
\* hit leaves the cache unchanged and takes no write lock; a miss changes
\* the cache only by adding the entry of its year; the set of cached years
\* only grows.
C25_CacheAppendOnly ==
    [][ /\ \A y \in DOMAIN ELAPSED_DAYS_CACHE :
              /\ y \in DOMAIN ELAPSED_DAYS_CACHE'
              /\ ELAPSED_DAYS_CACHE'[y] = ELAPSED_DAYS_CACHE[y]
        /\ \A t \in Threads :
              (tpc[t] = "get" /\ tpc'[t] = "returned")
                  => /\ ELAPSED_DAYS_CACHE' = ELAPSED_DAYS_CACHE
                     /\ writer' = writer /\ t \notin writer
        /\ ELAPSED_DAYS_CACHE' # ELAPSED_DAYS_CACHE
              => \E t \in Threads :
                    /\ tpc[t] = "insert" /\ tpc'[t] = "returned"
                    /\ tyear[t] \notin DOMAIN ELAPSED_DAYS_CACHE
                    /\ DOMAIN ELAPSED_DAYS_CACHE'
                         = (DOMAIN ELAPSED_DAYS_CACHE) \cup {tyear[t]}
                    /\ ELAPSED_DAYS_CACHE'[tyear[t]] = tval[t]
      ]_vars

\* a second year is about to be inserted next to a cached one
C25_SecondYearInserted ==
    \E t \in Threads :
        /\ tpc[t] = "insert"
        /\ tyear[t] \notin DOMAIN ELAPSED_DAYS_CACHE
        /\ ELAPSED_DAYS_CACHE # EmptyCache

\* C26: under any interleaving at most one thread is inserting into the
\* map at a time and no thread reads the map while an insertion is in
\* progress, while any number of threads may read the map simultaneously.
C26_WriterExcludes ==
    /\ Cardinality({t \in Threads : tpc[t] = "insert"}) <= 1
    /\ (\E t \in Threads : tpc[t] = "insert")
          => \A u \in Threads : tpc[u] # "get"
    /\ readers = {t \in Threads : tpc[t] = "get"}
    /\ writer = {t \in Threads : tpc[t] = "insert"}

\* two threads read the map at the same time
C26_TwoReaders ==
    \E t, u \in Threads : t # u /\ tpc[t] = "get" /\ tpc[u] = "get"

\* C27: when several threads miss the same year and each computes and
\* inserts it, all of them return the same value, the cache then holds the
\* entry of that year with that value, and no other entry is affected.
C27_RacingMisses ==
    [][ \A t \in Threads :
            (tpc[t] = "insert" /\ tpc'[t] = "returned")
                => /\ DOMAIN ELAPSED_DAYS_CACHE'
                        = (DOMAIN ELAPSED_DAYS_CACHE) \cup {tyear[t]}
                   /\ ELAPSED_DAYS_CACHE'[tyear[t]] = tval'[t]
                   /\ \A y \in (DOMAIN ELAPSED_DAYS_CACHE) \ {tyear[t]} :
                         ELAPSED_DAYS_CACHE'[y] = ELAPSED_DAYS_CACHE[y]
                   /\ \A u \in Threads :
                         (tyear[u] = tyear[t]
                            /\ tpc[u] \in {"write", "insert", "returned"})
                             => tval[u] = tval'[t]
      ]_vars

\* a thread that missed a year inserts it after another thread already has
C27_DuplicateInsert ==
    \E t, u \in Threads :
        /\ t # u /\ tyear[t] = tyear[u] /\ tyear[t] >= 1
        /\ tpc[t] = "insert" /\ tpc[u] = "returned"
        /\ tyear[t] \in DOMAIN ELAPSED_DAYS_CACHE


C29_ReturnedDateValid ==
    (pc = "done" /\ op = "try_from_absolute" /\ ret.tag = "Ok")
        => /\ ret.month \in Nisan..AdarII
           /\ ret.month = AdarII => reference_is_leap(ret.year)
           /\ ret.day >= 1
           /\ ret.day <= days_in_month(ret.month, ret.year)
           /\ first_month(ret.year, arg.absolute) = Tishrei
                => ret.month \in Tishrei..months_in_year(ret.year)
           /\ first_month(ret.year, arg.absolute) = Nisan
                => ret.month \in Nisan..Elul
           /\ scan_month(ret.year, first_month(ret.year, arg.absolute),
                         arg.absolute) = ret.month

\* the last day of AdarII of a leap year has been returned
C29_LastDayOfAdarII ==
    /\ pc = "done" /\ op = "try_from_absolute"
    /\ ret.tag = "Ok" /\ ret.year >= 1
    /\ ret.month = AdarII /\ ret.day = 29


\* the days of the months of a year: Tishrei to its last month, then Nisan
\* to Elul
days_of_months(year) ==
    sum_days_in_months(Tishrei, IF reference_is_leap(year) THEN AdarII ELSE AdarI,
                       year)
      + sum_days_in_months(Nisan, Elul, year)

\* C30: for every year y >= 1 the days_in_month of the months of y add up
\* to days_in_year(y); hence hebrew_to_absolute(y, Elul, 29) + 1 is
\* hebrew_to_absolute(y + 1, Tishrei, 1), and hebrew_to_absolute is strictly
\* increasing in the chronological order of valid dates.
C30_MonthsFillTheYear ==
    (pc = "done" /\ op = "hebrew_to_absolute")
        => /\ ret.tag = "Value"
           /\ days_of_months(arg.year) = days_in_year(arg.year)
           /\ days_of_months(arg.year) = reference_days_in_year(arg.year)
           /\ (arg.month = Elul /\ arg.day = 29)
                => hebrew_to_absolute(arg.year + 1, Tishrei, 1) = ret.year + 1
           /\ LET next == following_date(arg.year, arg.month, arg.day)
              IN  hebrew_to_absolute(next.year, next.month, next.day) = ret.year + 1
           /\ \A b \in HdateOthers :
                /\ chronologically_before(arg, b)
                     <=> ret.year < hebrew_to_absolute(b.year, b.month, b.day)
                /\ chronologically_before(b, arg)
                     <=> ret.year > hebrew_to_absolute(b.year, b.month, b.day)

\* the last day of a leap year has been converted
C30_LastDayOfLeapYear ==
    /\ pc = "done" /\ op = "hebrew_to_absolute"
    /\ arg.year = 5782 /\ arg.month = Elul /\ arg.day = 29
    /\ hebrew_to_absolute(5783, Tishrei, 1) = ret.year + 1
    /\ days_of_months(5782) = 384

=============================================================================
